---- MODULE Spec2Model ----
(***************************************************************************)
(* A model of wikisearch.py: class WikiSearch, which resolves a term to    *)
(* the name of a WordNet synset through the Wikipedia API.                 *)
(*                                                                         *)
(* Python strings are sequences of one-character strings, so that length,  *)
(* lower(), split(), prefix matching and edit distance are computed.       *)
(* Synset names are opaque identifiers and stay TLA+ strings.              *)
(***************************************************************************)
EXTENDS Integers, Sequences, FiniteSets, TLC

\* ------------------------------------------------------------ bounds

\* the longest phrase list handed to _get_first_synset in SpecMatch
MaxPhrases == 2

\* the most results a search response holds
MaxResults == 2

\* the most WikiSearch instances constructed
MaxInstances == 2

\* ------------------------------------------------------------ strings

s_empty == << >>

s_river == <<"r","i","v","e","r">>

s_River_Bank == <<"R","i","v","e","r"," ","B","a","n","k">>

s_bank == <<"b","a","n","k">>

s_bank_of_xyzzy == <<"b","a","n","k"," ","o","f"," ","x","y","z","z","y">>

s_a_dog == <<"a"," ","d","o","g">>

s_a == <<"a">>

s_dog == <<"d","o","g">>

s_dogs == <<"d","o","g","s">>

s_big == <<"b","i","g">>

s_big_dogs == <<"b","i","g"," ","d","o","g","s">>

s_city == <<"c","i","t","y">>

s_city_dog == <<"c","i","t","y"," ","d","o","g">>

s_usa == <<"u","s","a">>

s_xyzzy == <<"x","y","z","z","y">>

s_of == <<"o","f">>

s_in == <<"i","n">>

s_the == <<"t","h","e">>

s_an == <<"a","n">>

s_organization == <<"o","r","g","a","n","i","z","a","t","i","o","n">>

s_Person == <<"P","e","r","s","o","n">>

s_People == <<"P","e","o","p","l","e">>

s_Place == <<"P","l","a","c","e">>

s_Other == <<"O","t","h","e","r">>

s_Category_Rivers == <<"C","a","t","e","g","o","r","y",":","R","i","v","e","r","s">>

s_Category_All_articles == <<"C","a","t","e","g","o","r","y",":","A","l","l"," ","a","r","t","i","c","l","e","s">>

s_Category_Disambiguation_pages == <<"C","a","t","e","g","o","r","y",":","D","i","s","a","m","b","i","g","u","a","t","i","o","n"," ","p","a","g","e","s">>

s_Category_Star_Trek__Voyager == <<"C","a","t","e","g","o","r","y",":","S","t","a","r"," ","T","r","e","k",":"," ","V","o","y","a","g","e","r">>

s_Category_Banks_of_usa == <<"C","a","t","e","g","o","r","y",":","B","a","n","k","s"," ","o","f"," ","u","s","a">>

s_articles == <<"a","r","t","i","c","l","e","s">>

s_Wikimedia == <<"W","i","k","i","m","e","d","i","a">>

s_isambiguation == <<"i","s","a","m","b","i","g","u","a","t","i","o","n">>

s_city_in_usa == <<"c","i","t","y"," ","i","n"," ","u","s","a">>

s_Wikimedia_list == <<"W","i","k","i","m","e","d","i","a"," ","l","i","s","t">>

s__big_dogs_ == <<" ","b","i","g"," ","d","o","g","s"," ">>

s_xyzzy__bank_ == <<"x","y","z","z","y"," ","(","b","a","n","k",")">>

s__is_a_ == <<" ","i","s"," ","a"," ">>

s__was_a_ == <<" ","w","a","s"," ","a"," ">>

s__may_refer_to == <<" ","m","a","y"," ","r","e","f","e","r"," ","t","o">>

s_NASA__The_agency == <<"N","A","S","A","."," ","T","h","e"," ","a","g","e","n","c","y">>

s_The_Rhine_is_a_river_in_usa__It_flows == <<"T","h","e"," ","R","h","i","n","e"," ","i","s"," ","a"," ","r","i","v","e","r"," ","i","n"," ","u","s","a","."," ","I","t"," ","f","l","o","w","s">>

s_Bo_may_refer_to_ == <<"B","o"," ","m","a","y"," ","r","e","f","e","r"," ","t","o",":">>

s_Bo__dog___a_city == <<"B","o"," ","(","d","o","g",")",","," ","a"," ","c","i","t","y">>

s_xyzzy__big == <<"x","y","z","z","y",","," ","b","i","g">>

s_Rhine == <<"R","h","i","n","e">>

s_pari == <<"p","a","r","i">>

s_Paris == <<"P","a","r","i","s">>

s_Pari == <<"P","a","r","i">>

s_paris == <<"p","a","r","i","s">>

s_city_bank == <<"c","i","t","y","|","b","a","n","k">>

s_he == <<"h","e">>

s_it == <<"i","t">>

s_she == <<"s","h","e">>

Min(a, b) == IF a <= b THEN a ELSE b

Max(a, b) == IF a >= b THEN a ELSE b

Abs(a) == IF a >= 0 THEN a ELSE 0 - a

UpperLetters ==
  <<"A","B","C","D","E","F","G","H","I","J","K","L","M",
    "N","O","P","Q","R","S","T","U","V","W","X","Y","Z">>

LowerLetters ==
  <<"a","b","c","d","e","f","g","h","i","j","k","l","m",
    "n","o","p","q","r","s","t","u","v","w","x","y","z">>

IsUpper(c) == \E k \in 1..26 : UpperLetters[k] = c

LowerChar(c) ==
  IF IsUpper(c) THEN LowerLetters[CHOOSE k \in 1..26 : UpperLetters[k] = c] ELSE c

\* str.lower()
Lower(s) == [i \in 1..Len(s) |-> LowerChar(s[i])]

\* whether sub occurs in s at (1-based) position i
StartsAt(s, sub, i) ==
  /\ i >= 1
  /\ i + Len(sub) - 1 <= Len(s)
  /\ SubSeq(s, i, i + Len(sub) - 1) = sub

\* str.strip() for blanks
RECURSIVE LStrip(_)
LStrip(s) == IF s # << >> /\ s[1] = " " THEN LStrip(Tail(s)) ELSE s

RECURSIVE RStrip(_)
RStrip(s) ==
  IF s # << >> /\ s[Len(s)] = " " THEN RStrip(SubSeq(s, 1, Len(s) - 1)) ELSE s

Strip(s) == RStrip(LStrip(s))

\* str.split(sep) for a one-character separator: the parts, empty ones kept
RECURSIVE SplitOnFrom(_, _, _, _)
SplitOnFrom(s, sep, i, cur) ==
  IF i > Len(s)
  THEN << cur >>
  ELSE IF s[i] = sep
       THEN << cur >> \o SplitOnFrom(s, sep, i + 1, << >>)
       ELSE SplitOnFrom(s, sep, i + 1, Append(cur, s[i]))

SplitOn(s, sep) == SplitOnFrom(s, sep, 1, << >>)

\* re.sub('[...]', '', s) for a class of characters
RemoveChars(s, class) == SelectSeq(s, LAMBDA c : c \notin class)

\* A configured pattern is an alternation of literals, held as the sequence of its
\* alternatives. re.search: the leftmost position where an alternative matches, 0 if none.
ReSearchStart(alts, s) ==
  LET hits == { i \in 1..(Len(s) + 1) : \E a \in 1..Len(alts) : StartsAt(s, alts[a], i) }
  IN IF hits = {} THEN 0 ELSE CHOOSE i \in hits : \A j \in hits : i <= j

\* match.end() of that match (the first alternative that matches there), -1 if none
ReSearchEnd(alts, s) ==
  LET i == ReSearchStart(alts, s)
  IN IF i = 0
     THEN 0 - 1
     ELSE LET a == CHOOSE a \in 1..Len(alts) :
                     /\ StartsAt(s, alts[a], i)
                     /\ \A b \in 1..(a - 1) : ~StartsAt(s, alts[b], i)
          IN i - 1 + Len(alts[a])

\* bool(re.search(pattern, s))
ReSearch(alts, s) == ReSearchStart(alts, s) # 0

\* str.split(): the maximal runs of non-blank characters, in order
RECURSIVE SplitFrom(_, _, _)
SplitFrom(s, i, cur) ==
  IF i > Len(s)
  THEN (IF cur = << >> THEN << >> ELSE << cur >>)
  ELSE IF s[i] = " "
       THEN (IF cur = << >> THEN << >> ELSE << cur >>) \o SplitFrom(s, i + 1, << >>)
       ELSE SplitFrom(s, i + 1, Append(cur, s[i]))

Split(s) == SplitFrom(s, 1, << >>)

\* ------------------------------------------------------------ outcomes of a call

\* a call returns a value or raises an exception
Ret(v) == [ok |-> TRUE, val |-> v]

Exc(e) == [ok |-> FALSE, exc |-> e]

\* Python's None, as a response
None == [None |-> TRUE]

\* ------------------------------------------------------------ taxonomy (nltk WordNet)

\* wn.synsets(term, 'n'): the names of the noun senses of a headword, default sense first
WnSynsets(tok) ==
  CASE tok = s_river -> <<"river.n.01">>
    [] tok = s_bank -> <<"bank.n.01", "bank.n.02">>
    [] tok = s_dog -> <<"dog.n.01", "frump.n.01">>
    [] tok = s_a -> <<"angstrom.n.01", "vitamin_a.n.01">>
    [] tok = s_city -> <<"city.n.01", "city.n.02">>
    [] tok = s_usa -> <<"united_states.n.01">>
    [] tok = s_in -> <<"inch.n.01">>
    [] OTHER -> << >>

\* WordNetLemmatizer.lemmatize(term): the base form, the term itself when it has none
Lemmatize(tok) ==
  IF Len(tok) > 1 /\ tok[Len(tok)] = "s" /\ WnSynsets(SubSeq(tok, 1, Len(tok) - 1)) # << >>
  THEN SubSeq(tok, 1, Len(tok) - 1)
  ELSE tok

\* ------------------------------------------------------------ state

VARIABLES
  categ_synsets,  \* WikiSearch.categ_synsets: the class-level override table, token -> synset name
  regexps,        \* WikiSearch.regexps: the class-level table of named patterns
  pronouns,       \* WikiSearch.pronouns: the class-level pronoun table
  phrases,        \* _get_first_synset: the argument
  m_pc,           \* _get_first_synset: "loop" while the outer loop runs, "done" after the return
  m_next,         \* _get_first_synset: the index of the next phrase of the outer loop
  m_synset,       \* _get_first_synset: the value returned
  x_response,     \* _get_response_terms: the argument
  x_pc,           \* _get_response_terms: "start", "post" (line 89 reached), "done"
  x_phrases,      \* _get_response_terms: phrases, after the loop over the pages
  x_terms,        \* _get_response_terms: the outcome of the call
  built,          \* the WikiSearch instances constructed so far, each with the tables as its __init__ left them
  pc,             \* get_wiki_synset: "idle", "direct", "search1", "search2", "lookup", "done"
  term,           \* get_wiki_synset: the argument
  url,            \* _get_wiki_response: the argument
  w_pc,           \* _get_wiki_response: "trying" inside the loop, "returned" after the return
  attempts,       \* _get_wiki_response: calls of urlopen made
  failures,       \* _get_wiki_response: URLErrors caught
  slept,          \* _get_wiki_response: time slept
  response,       \* _get_wiki_response: the value returned
  response1,      \* _get_wiki_search_synset: response1
  r_next,         \* _get_wiki_search_synset: the index of the search result being looked up
  log,            \* the urls handed to _get_wiki_response during the call, in order
  searches,       \* the responses the search requests of the call returned, in order
  looked,         \* the results looked up during the call, each with the synset it gave
  all_failed,     \* whether every one of those calls of _get_wiki_response returned None
  direct,         \* the outcome of lines 62-63 on the direct response, once computed
  fallback,       \* the outcome of _get_wiki_search_synset
  result          \* the outcome of get_wiki_synset

configVars == <<categ_synsets, regexps, pronouns>>

matchVars == <<phrases, m_pc, m_next, m_synset>>

extractVars == <<x_response, x_pc, x_phrases, x_terms>>

retryVars == <<url, w_pc, attempts, failures, slept, response>>

callVars == <<pc, term, response1, r_next, log, all_failed, searches, looked, direct, fallback, result>>

resolveVars == <<built, retryVars, callVars>>

vars == <<configVars, matchVars, extractVars, resolveVars>>

\* ------------------------------------------------------------ the rule files and __init__

\* the directories a WikiSearch may be constructed with
DataDirs == {"A", "B"}

\* data_dir + '/rule_files/wiki_rules.xlsx', sheet categ_synsets: rows of <<synset, terms>>
Sheet_categ_synsets(data_dir) ==
  IF data_dir = "A"
  THEN << <<"municipality.n.01", s_city>>, <<"country.n.02", s_usa>> >>
  ELSE << <<"metropolis.n.01", s_city_bank>> >>

\* sheet regexps: rows of <<name, pattern>>, a pattern held as its alternatives
Sheet_regexps(data_dir) ==
  << <<"preps", IF data_dir = "A" THEN <<s_of, s_in>> ELSE <<s_of>> >>,
     <<"general_categs", <<s_articles, s_Wikimedia>> >>,
     <<"extract_prefs", <<s__is_a_, s__was_a_, s__may_refer_to>> >>,
     <<"dets", <<s_a, s_an, s_the>> >> >>

\* sheet pronouns: rows of <<category, pronoun>>
Sheet_pronouns(data_dir) ==
  IF data_dir = "A"
  THEN << <<"person", s_he>>, <<"thing", s_it>> >>
  ELSE << <<"person", s_she>>, <<"animal", s_it>> >>

\* a dict after d[key] = value
DictSet(d, key, value) == [k \in DOMAIN d \cup {key} |-> IF k = key THEN value ELSE d[k]]

\* lines 41-42: the inner loop over row[1].split('|')
RECURSIVE SetEach(_, _, _, _)
SetEach(d, keys, k, value) ==
  IF k > Len(keys) THEN d ELSE SetEach(DictSet(d, keys[k], value), keys, k + 1, value)

\* lines 36-42: the class-level dict after _load_categ_synsets
RECURSIVE LoadCategSynsets(_, _, _)
LoadCategSynsets(d, rows, r) ==
  IF r > Len(rows)
  THEN d
  ELSE LoadCategSynsets(SetEach(d, SplitOn(rows[r][2], "|"), 1, rows[r][1]), rows, r + 1)

\* lines 44-49
RECURSIVE LoadRegexps(_, _, _)
LoadRegexps(d, rows, r) ==
  IF r > Len(rows) THEN d ELSE LoadRegexps(DictSet(d, rows[r][1], rows[r][2]), rows, r + 1)

\* lines 51-56
RECURSIVE LoadPronouns(_, _, _)
LoadPronouns(d, rows, r) ==
  IF r > Len(rows) THEN d ELSE LoadPronouns(DictSet(d, rows[r][2], rows[r][1]), rows, r + 1)

\* lines 24-26: the class attributes when the class is defined
EmptyDict == << >>

\* the tables after WikiSearch("A") in a fresh process
Workbook_categ_synsets == LoadCategSynsets(EmptyDict, Sheet_categ_synsets("A"), 1)

Workbook_regexps == LoadRegexps(EmptyDict, Sheet_regexps("A"), 1)

Workbook_pronouns == LoadPronouns(EmptyDict, Sheet_pronouns("A"), 1)

MatchIdle ==
  /\ phrases = << >>
  /\ m_pc = "idle"
  /\ m_next = 1
  /\ m_synset = ""

RetryIdle ==
  /\ url = [kind |-> "none", q |-> << >>]
  /\ w_pc = "idle"
  /\ attempts = 0
  /\ failures = 0
  /\ slept = 0
  /\ response = None

CallIdle ==
  /\ pc = "idle"
  /\ term = << >>
  /\ response1 = None
  /\ r_next = 0
  /\ log = << >>
  /\ all_failed = TRUE
  /\ searches = << >>
  /\ looked = << >>
  /\ direct = << >>
  /\ fallback = Ret("")
  /\ result = Ret("")

ResolveIdle == built = << >> /\ RetryIdle /\ CallIdle

ExtractIdle ==
  /\ x_response = None
  /\ x_pc = "idle"
  /\ x_phrases = << >>
  /\ x_terms = Ret(<< >>)

\* ------------------------------------------------------------ _get_first_synset

\* the taxonomy asked first, the override table only for a token it does not know
TokenSynsets_taxonomyFirst(table, tok) ==
  IF WnSynsets(tok) # << >>
  THEN WnSynsets(tok)
  ELSE IF tok \in DOMAIN table
       THEN << table[tok] >>
       ELSE WnSynsets(Lemmatize(tok))

\* lines 149-153: the senses of one token
TokenSynsets(table, tok) ==
  IF tok \in DOMAIN table
  THEN << table[tok] >>
  ELSE IF WnSynsets(tok) # << >> \/ tok = << >>
       THEN WnSynsets(tok)
       ELSE WnSynsets(Lemmatize(tok))

\* the length test admitting three-character tokens
TokenSets_atLeast3(table, tok) == TokenSynsets(table, tok) # << >> /\ Len(tok) >= 3

\* line 156: whether the token's first sense becomes prev_synset
TokenSets(table, tok) == TokenSynsets(table, tok) # << >> /\ Len(tok) > 3

\* lines 145-157: prev_synset after the inner loop over the tokens of one phrase
RECURSIVE InnerLoop(_, _, _, _)
InnerLoop(table, parts, t, prev) ==
  IF t > Len(parts)
  THEN prev
  ELSE InnerLoop(table, parts, t + 1,
                 IF TokenSets(table, parts[t])
                 THEN TokenSynsets(table, parts[t])[1]
                 ELSE prev)

PhraseSynset(table, phrase) == InnerLoop(table, Split(Lower(phrase)), 1, "")

\* lines 143-159 as a function of the phrase list
RECURSIVE FirstSynsetFrom(_, _, _)
FirstSynsetFrom(table, ps, i) ==
  IF i > Len(ps)
  THEN ""
  ELSE IF PhraseSynset(table, ps[i]) # ""
       THEN PhraseSynset(table, ps[i])
       ELSE FirstSynsetFrom(table, ps, i + 1)

GetFirstSynset(table, ps) == FirstSynsetFrom(table, ps, 1)

\* ------------------------------------------------------------ _get_extract_phrases

\* An extract is held as what lxml finds in it: p_text is ''.join(extract.xpath('p//text()')),
\* span_ids is the list of './@id' of each '//span' in order, li_text is
\* extract.xpath('//li//text()'); nonempty is the truth value of the string itself.

Punctuation == {".", ",", "?", ":", ";", "(", ")"}

\* line 101: re.match('[A-Z]+$', extract_head)
IsAllUpper(head) == head # << >> /\ \A i \in 1..Len(head) : IsUpper(head[i])

\* line 111: re.match('Person|People|Place', first_id[0])
IsPersonPlaceId(id) == \E alt \in {s_Person, s_People, s_Place} : StartsAt(id, alt, 1)

\* lines 116-117: re.search('\\((.+)\\)', line), the phrases it adds
ParensPhrases(line) ==
  LET closes == { j \in 1..Len(line) : line[j] = ")" }
      opens == { i \in 1..Len(line) : line[i] = "(" /\ \E j \in closes : j >= i + 2 }
  IN IF opens = {}
     THEN << >>
     ELSE LET i == CHOOSE x \in opens : \A y \in opens : x <= y
              j == CHOOSE x \in closes : \A y \in closes : x >= y
          IN << SubSeq(line, i + 1, j - 1) >>

\* line 120: any(tok in dets for tok in part.split())
HasDeterminer(rx, part) ==
  \E t \in 1..Len(Split(part)) : \E d \in 1..Len(rx["dets"]) : Split(part)[t] = rx["dets"][d]

\* lines 118-122: the first comma-part that holds a determiner
DeterminerPhrases(rx, line) ==
  LET parts == SplitOn(line, ",")
      hits == { k \in 1..Len(parts) : HasDeterminer(rx, parts[k]) }
  IN IF hits = {} THEN << >> ELSE << parts[CHOOSE k \in hits : \A l \in hits : k <= l] >>

\* lines 114-122
RECURSIVE LinePhrases(_, _, _)
LinePhrases(rx, lines, k) ==
  IF k > Len(lines)
  THEN << >>
  ELSE ParensPhrases(lines[k]) \o DeterminerPhrases(rx, lines[k]) \o LinePhrases(rx, lines, k + 1)

\* lines 97-123
GetExtractPhrases(rx, extract, search_query) ==
  LET extract_head == Strip(SplitOn(extract.p_text, ".")[1])
      match_end == ReSearchEnd(rx["extract_prefs"], extract_head)
      opener ==
        IF match_end < 0
        THEN << >>
        ELSE IF match_end < Len(extract_head) - 2
             THEN << SubSeq(extract_head, match_end + 1, Len(extract_head)) >>
             ELSE IF extract.span_ids # << >>
                     /\ extract.span_ids[1] # << >>
                     /\ IsPersonPlaceId(extract.span_ids[1][1])
                  THEN << extract.span_ids[1][1] >>
                  ELSE << >>
  IN IF IsAllUpper(extract_head)
     THEN << s_organization >>
     ELSE opener \o (IF search_query THEN LinePhrases(rx, extract.li_text, 1) ELSE << >>)

\* ------------------------------------------------------------ _get_page_phrases

\* line 136: pagecat['title'].split(':')[-1]
CatText(title) == SplitOn(title, ":")[Len(SplitOn(title, ":"))]

\* lines 127-130
DescriptionPhrases(rx, terms) ==
  IF "description" \in DOMAIN terms
  THEN SelectSeq(terms.description, LAMBDA pt : ~ReSearch(rx["general_categs"], pt))
  ELSE << >>

\* lines 131-134
LabelAliasPhrases(terms) ==
  (IF "label" \in DOMAIN terms THEN terms.label ELSE << >>)
    \o (IF "alias" \in DOMAIN terms THEN terms.alias ELSE << >>)

Reverse(q) == [i \in 1..Len(q) |-> q[Len(q) + 1 - i]]

\* lines 135-138
CategoryPhrases(rx, categories) ==
  SelectSeq([i \in 1..Len(categories) |-> CatText(Reverse(categories)[i].title)],
            LAMBDA cattext : ~ReSearch(rx["general_categs"], cattext))

\* lines 125-141; a missing key raises KeyError
GetPagePhrases(rx, page) ==
  IF "title" \notin DOMAIN page \/ "terms" \notin DOMAIN page
     \/ "categories" \notin DOMAIN page \/ "extract" \notin DOMAIN page
  THEN Exc("KeyError")
  ELSE Ret(<< page.title >>
           \o DescriptionPhrases(rx, page.terms)
           \o LabelAliasPhrases(page.terms)
           \o CategoryPhrases(rx, page.categories)
           \o (IF page.extract.nonempty
               THEN GetExtractPhrases(rx, page.extract, FALSE)
               ELSE << >>))

\* ------------------------------------------------------------ _get_response_terms

\* line 85: re.search('[Dd]isambiguation', cat1)
IsDisambiguation(cat1) ==
  \E i \in 2..Len(cat1) : cat1[i - 1] \in {"D", "d"} /\ StartsAt(cat1, s_isambiguation, i)

\* lines 83-88 for one page: the phrases it adds
OnePagePhrases(rx, page) ==
  IF "categories" \notin DOMAIN page
  THEN Ret(<< >>)
  ELSE IF page.categories = << >>
       THEN Exc("IndexError")
       ELSE IF IsDisambiguation(page.categories[1].title)
            THEN IF "extract" \notin DOMAIN page
                 THEN Exc("KeyError")
                 ELSE Ret(IF page.extract.nonempty
                          THEN GetExtractPhrases(rx, page.extract, TRUE)
                          ELSE << >>)
            ELSE GetPagePhrases(rx, page)

\* lines 82-88: the loop over the pages
RECURSIVE PagesPhrases(_, _, _, _)
PagesPhrases(rx, pages, k, acc) ==
  IF k > Len(pages)
  THEN Ret(acc)
  ELSE LET one == OnePagePhrases(rx, pages[k])
       IN IF one.ok THEN PagesPhrases(rx, pages, k + 1, acc \o one.val) ELSE one

\* lines 78-80: the guard; "return" for the early return of [], "raise" or "go on"
ResponseGuard(resp) ==
  IF resp = None \/ DOMAIN resp = {} \/ "query" \notin DOMAIN resp
  THEN [kind |-> "return"]
  ELSE IF "pages" \notin DOMAIN resp.query
       THEN [kind |-> "raise", exc |-> "KeyError"]
       ELSE IF resp.query.pages = << >>
            THEN [kind |-> "raise", exc |-> "IndexError"]
            ELSE IF "terms" \notin DOMAIN resp.query.pages[1]
                 THEN [kind |-> "return"]
                 ELSE [kind |-> "go on"]

\* line 93: re.split(' (%s) ' % preps, phrase)[0]
MainPart(rx, phrase) ==
  LET bounded == [a \in 1..Len(rx["preps"]) |-> <<" ">> \o rx["preps"][a] \o <<" ">>]
      start == ReSearchStart(bounded, phrase)
  IN IF start = 0 THEN phrase ELSE SubSeq(phrase, 1, start - 1)

\* lines 89-95
RECURSIVE PostProcess(_, _, _)
PostProcess(rx, ps, k) ==
  IF k > Len(ps)
  THEN << >>
  ELSE (IF Strip(ps[k]) # << >>
        THEN << RemoveChars(MainPart(rx, Strip(ps[k])), Punctuation) >>
        ELSE << >>)
       \o PostProcess(rx, ps, k + 1)

\* lines 89-95, for the phrases collected (or the exception raised while collecting)
TermsOf(rx, collected) ==
  IF collected.ok THEN Ret(PostProcess(rx, collected.val, 1)) ELSE collected

\* lines 77-95
GetResponseTerms(rx, resp) ==
  IF ResponseGuard(resp).kind = "return"
  THEN Ret(<< >>)
  ELSE IF ResponseGuard(resp).kind = "raise"
       THEN Exc(ResponseGuard(resp).exc)
       ELSE TermsOf(rx, PagesPhrases(rx, resp.query.pages, 1, << >>))

\* the phrases SpecMatch hands to _get_first_synset
PhrasePool ==
  { s_river, s_River_Bank, s_bank_of_xyzzy, s_a_dog, s_big_dogs,
    s_city, s_city_dog, s_usa, s_xyzzy }

SeqsUpTo(S, n) == UNION { [1..k -> S] : k \in 0..n }

InitMatch ==
  /\ categ_synsets = Workbook_categ_synsets
  /\ regexps = Workbook_regexps
  /\ pronouns = Workbook_pronouns
  /\ ExtractIdle
  /\ ResolveIdle
  /\ phrases \in SeqsUpTo(PhrasePool, MaxPhrases)
  /\ m_pc = "loop"
  /\ m_next = 1
  /\ m_synset = ""

\* one pass of the outer loop, lines 144-158
ExaminePhrase ==
  /\ m_pc = "loop"
  /\ m_next <= Len(phrases)
  /\ LET prev_synset == PhraseSynset(categ_synsets, phrases[m_next])
     IN IF prev_synset # ""
        THEN /\ m_synset' = prev_synset
             /\ m_pc' = "done"
             /\ m_next' = m_next + 1
        ELSE /\ m_next' = m_next + 1
             /\ UNCHANGED <<m_synset, m_pc>>
  /\ UNCHANGED <<configVars, extractVars, resolveVars, phrases>>

\* line 159
ReturnNoSynset ==
  /\ m_pc = "loop"
  /\ m_next > Len(phrases)
  /\ m_synset' = ""
  /\ m_pc' = "done"
  /\ UNCHANGED <<configVars, extractVars, resolveVars, phrases, m_next>>

NextMatch == ExaminePhrase \/ ReturnNoSynset

SpecMatch == InitMatch /\ [][NextMatch]_vars

\* ------------------------------------------------------------ SpecExtract: _get_response_terms

TitleChoices == { << >>, [title |-> s_river] }

TermsChoices ==
  { << >>,
    [terms |-> << >>],
    [terms |-> [description |-> <<s_city_in_usa, s_Wikimedia_list>>]],
    [terms |-> [label |-> <<s_bank>>, alias |-> <<s__big_dogs_, s_xyzzy__bank_>>]],
    [terms |-> [description |-> <<s_Wikimedia_list, s_city_in_usa>>,
                label |-> <<s_bank>>, alias |-> <<s_xyzzy>>]] }

Cat(title) == [title |-> title]

CategoriesChoices ==
  { << >>,
    [categories |-> << >>],
    [categories |-> <<Cat(s_Category_Rivers), Cat(s_Category_All_articles)>>],
    [categories |-> <<Cat(s_Category_Disambiguation_pages), Cat(s_Category_Rivers)>>],
    [categories |-> <<Cat(s_Category_Banks_of_usa), Cat(s_Category_Star_Trek__Voyager)>>] }

NoExtract == [nonempty |-> FALSE, p_text |-> << >>, span_ids |-> << >>, li_text |-> << >>]

RhineExtract ==
  [nonempty |-> TRUE, p_text |-> s_The_Rhine_is_a_river_in_usa__It_flows,
   span_ids |-> << >>, li_text |-> << >>]

NasaExtract ==
  [nonempty |-> TRUE, p_text |-> s_NASA__The_agency, span_ids |-> << <<s_Other>> >>,
   li_text |-> <<s_xyzzy__big>>]

ReferExtract ==
  [nonempty |-> TRUE, p_text |-> s_Bo_may_refer_to_, span_ids |-> << <<s_People>>, <<s_Other>> >>,
   li_text |-> <<s_Bo__dog___a_city, s_xyzzy__big>>]

ExtractChoices ==
  { << >>, [extract |-> NoExtract], [extract |-> RhineExtract],
    [extract |-> NasaExtract], [extract |-> ReferExtract] }

\* the page records of SpecExtract: every combination of absent and present fields
PagePool ==
  { t @@ tm @@ c @@ e :
      t \in TitleChoices, tm \in TermsChoices, c \in CategoriesChoices, e \in ExtractChoices }

PagesResponse(pages) == [query |-> [pages |-> pages]]

FullPage ==
  [title |-> s_river, terms |-> [label |-> <<s_bank>>],
   categories |-> <<Cat(s_Category_Rivers)>>, extract |-> RhineExtract]

ResponsePool ==
  { None, [batchcomplete |-> ""] }
    \cup { PagesResponse(<<pg>>) : pg \in PagePool }
    \cup { PagesResponse(<<FullPage, pg>>) : pg \in {FullPage, [title |-> s_xyzzy]} }

InitExtract ==
  /\ categ_synsets = Workbook_categ_synsets
  /\ regexps = Workbook_regexps
  /\ pronouns = Workbook_pronouns
  /\ MatchIdle
  /\ ResolveIdle
  /\ x_response \in ResponsePool
  /\ x_pc = "start"
  /\ x_phrases = << >>
  /\ x_terms = Ret(<< >>)

\* lines 78-88: the guard and the loop over the pages
CollectPhrases ==
  /\ x_pc = "start"
  /\ LET guard == ResponseGuard(x_response)
     IN IF guard.kind = "return"
        THEN x_terms' = Ret(<< >>) /\ x_pc' = "done" /\ UNCHANGED x_phrases
        ELSE IF guard.kind = "raise"
             THEN x_terms' = Exc(guard.exc) /\ x_pc' = "done" /\ UNCHANGED x_phrases
             ELSE LET collected == PagesPhrases(regexps, x_response.query.pages, 1, << >>)
                  IN IF collected.ok
                     THEN x_phrases' = collected.val /\ x_pc' = "post" /\ UNCHANGED x_terms
                     ELSE x_terms' = collected /\ x_pc' = "done" /\ UNCHANGED x_phrases
  /\ UNCHANGED <<configVars, matchVars, resolveVars, x_response>>

\* lines 89-95
PostProcessPhrases ==
  /\ x_pc = "post"
  /\ x_terms' = Ret(PostProcess(regexps, x_phrases, 1))
  /\ x_pc' = "done"
  /\ UNCHANGED <<configVars, matchVars, resolveVars, x_response, x_phrases>>

NextExtract == CollectPhrases \/ PostProcessPhrases

SpecExtract == InitExtract /\ [][NextExtract]_vars

\* the two-step run and the function agree
ExtractAgrees == x_pc = "done" => x_terms = GetResponseTerms(regexps, x_response)

\* ------------------------------------------------------------ _title_close_enough

\* nltk.metrics.distance.edit_distance(a, b): Levenshtein, substitution cost 1
EditDistance(a, b) ==
  LET d[i \in 0..Len(a), j \in 0..Len(b)] ==
        IF i = 0 THEN j
        ELSE IF j = 0 THEN i
        ELSE Min(Min(d[i - 1, j] + 1, d[i, j - 1] + 1),
                 d[i - 1, j - 1] + (IF a[i] = b[j] THEN 0 ELSE 1))
  IN d[Len(a), Len(b)]

\* line 183: re.match(pattern, s) for a pattern of literal characters and "."
ReMatch(pattern, s) ==
  /\ Len(pattern) <= Len(s)
  /\ \A i \in 1..Len(pattern) : pattern[i] = "." \/ pattern[i] = s[i]

\* lines 182-187; max(..) / 2 and len(title) / 3 are true divisions
TitleCloseEnough(trm, title) ==
  LET dist == EditDistance(Lower(trm), Lower(title))
  IN \/ ReMatch(Lower(trm), Lower(title))
     \/ 2 * dist <= Max(Len(title), Len(trm))
     \/ /\ dist <= Abs(Len(title) - Len(trm)) + 1
        /\ 3 * Len(trm) >= Len(title)

\* ------------------------------------------------------------ _get_wiki_response

\* line 28
sleep_time_btw_queries == 2

\* one pass too many
MaxAttempts_eleven == 10 + 1

\* line 68: range(10)
MaxAttempts == 10

\* urllib.parse.quote for letters and blanks
RECURSIVE Quote(_)
Quote(str) ==
  IF str = << >>
  THEN << >>
  ELSE (IF str[1] = " " THEN <<"%", "2", "0">> ELSE << str[1] >>) \o Quote(Tail(str))

\* lines 59-60, 174-175: url_base + '&titles=%s&prop=categories|pageterms|extracts'
TitlesUrl(title) == [kind |-> "titles", q |-> Quote(title)]

\* lines 162-163, 167-168: url_base + '&list=search&srsearch=%s'
SearchUrl(query) == [kind |-> "search", q |-> Quote(query)]

\* what the site may answer to a title lookup
RiverPage ==
  [title |-> s_river, terms |-> [label |-> <<s_Rhine>>],
   categories |-> <<Cat(s_Category_Rivers)>>, extract |-> NoExtract]

CityPage ==
  [title |-> s_Paris, terms |-> [description |-> <<s_city_in_usa>>],
   categories |-> <<Cat(s_Category_All_articles)>>, extract |-> NoExtract]

NoSensePage ==
  [title |-> s_xyzzy, terms |-> << >>,
   categories |-> <<Cat(s_Category_All_articles)>>, extract |-> NasaExtract]

MissingPage == [title |-> s_Pari, missing |-> ""]

NoExtractPage ==
  [title |-> s_river, terms |-> << >>, categories |-> <<Cat(s_Category_Rivers)>>]

PageResponses ==
  { PagesResponse(<<pg>>) : pg \in {RiverPage, CityPage, NoSensePage, MissingPage, NoExtractPage} }

\* what the site may answer to a search
TitlePool == {s_Paris, s_Pari, s_xyzzy}

SearchResponses ==
  { [query |-> [searchinfo |-> si, search |-> rs]] :
      si \in { [totalhits |-> 0], [totalhits |-> 0, suggestion |-> s_paris] },
      rs \in SeqsUpTo({ [title |-> tt] : tt \in TitlePool }, MaxResults) }
    \cup { [query |-> [search |-> << >>]], [error |-> "badquery"] }

Answers(u) == IF u.kind = "titles" THEN PageResponses ELSE SearchResponses

\* the terms get_wiki_synset is called with
TermPool == {s_pari, s_xyzzy}

\* the call of _get_wiki_response(u): the state before the first pass of the loop
StartRequest(u) ==
  /\ url' = u
  /\ w_pc' = "trying"
  /\ attempts' = 0
  /\ failures' = 0
  /\ slept' = 0
  /\ response' = None
  /\ log' = Append(log, u)

\* lines 69-72: urlopen succeeds and the decoded data is returned
AttemptSucceeds ==
  /\ w_pc = "trying"
  /\ attempts < MaxAttempts
  /\ \E data \in Answers(url) :
       /\ response' = data
       /\ w_pc' = "returned"
       /\ attempts' = attempts + 1
  /\ all_failed' = FALSE
  /\ UNCHANGED <<configVars, matchVars, extractVars, built, url, failures, slept>>
  /\ UNCHANGED <<pc, term, response1, r_next, log, searches, looked, direct, fallback, result>>

\* lines 69-70, 73-75: urlopen raises URLError, the loop sleeps; after the last pass
\* the function returns None
AttemptFails ==
  /\ w_pc = "trying"
  /\ attempts < MaxAttempts
  /\ attempts' = attempts + 1
  /\ failures' = failures + 1
  /\ slept' = slept + sleep_time_btw_queries
  /\ IF attempts + 1 = MaxAttempts
     THEN w_pc' = "returned" /\ response' = None
     ELSE UNCHANGED <<w_pc, response>>
  /\ UNCHANGED <<configVars, matchVars, extractVars, built, callVars, url>>

\* ------------------------------------------------------------ __init__

\* lines 30-34: the loads write into the dicts of the class
Construct ==
  /\ pc = "idle"
  /\ Len(built) < MaxInstances
  /\ \E data_dir \in DataDirs :
       /\ categ_synsets' = LoadCategSynsets(categ_synsets, Sheet_categ_synsets(data_dir), 1)
       /\ regexps' = LoadRegexps(regexps, Sheet_regexps(data_dir), 1)
       /\ pronouns' = LoadPronouns(pronouns, Sheet_pronouns(data_dir), 1)
       /\ built' = Append(built, [data_dir |-> data_dir,
                                  categ_synsets |-> categ_synsets',
                                  regexps |-> regexps',
                                  pronouns |-> pronouns'])
  /\ UNCHANGED <<matchVars, extractVars, retryVars, callVars>>

\* ------------------------------------------------------------ get_wiki_synset

\* lines 63, 178: the synset of the terms, or the exception that kept them from being computed
TermsSynset(rterms) ==
  IF rterms.ok THEN Ret(GetFirstSynset(categ_synsets, rterms.val)) ELSE rterms

\* lines 62-63, 177-178: the synset of a response, or the exception raised on the way
ResponseSynset(resp) == TermsSynset(GetResponseTerms(regexps, resp))

\* the outcome of the fallback dropped
ReturnFallback_empty(outcome) == Ret("")

\* line 65: return self._get_wiki_search_synset(term)
ReturnFallback(outcome) == outcome

\* the call returns or raises out of _get_wiki_search_synset
FallbackEnds(outcome) ==
  /\ fallback' = outcome
  /\ result' = ReturnFallback(outcome)
  /\ pc' = "done"
  /\ UNCHANGED <<retryVars, log>>

\* lines 165, 170: the exception that subscripting response1 raises, "" when none
SearchError(r1) ==
  IF r1 = None
  THEN "TypeError"
  ELSE IF "query" \notin DOMAIN r1 \/ "search" \notin DOMAIN r1.query
       THEN "KeyError"
       ELSE ""

\* the suggestion followed whether or not the search has results
FollowsSuggestion_ignoringResults(r1) ==
  /\ "searchinfo" \in DOMAIN r1.query
  /\ "suggestion" \in DOMAIN r1.query.searchinfo

\* lines 165-166: whether the search is issued again with the suggestion
FollowsSuggestion(r1) ==
  /\ r1.query.search = << >>
  /\ "searchinfo" \in DOMAIN r1.query
  /\ "suggestion" \in DOMAIN r1.query.searchinfo

\* lines 171-173: the first result from index i on whose title is close enough, 0 if none
NextCloseResult(results, i) ==
  LET close == { j \in i..Len(results) : TitleCloseEnough(term, results[j].title) }
  IN IF close = {} THEN 0 ELSE CHOOSE j \in close : \A k \in close : j <= k

\* lines 170-180: the loop over the results of r1 from index i to its next title lookup,
\* or to the return of ''
ResultsLoop(r1, i) ==
  LET j == NextCloseResult(r1.query.search, i)
  IN IF j = 0
     THEN /\ FallbackEnds(Ret(""))
          /\ UNCHANGED r_next
     ELSE /\ StartRequest(TitlesUrl(r1.query.search[j].title))
          /\ r_next' = j
          /\ pc' = "lookup"
          /\ UNCHANGED <<fallback, result>>

\* lines 58-61
Call ==
  /\ pc = "idle"
  /\ built # << >>
  /\ \E trm \in TermPool :
       /\ term' = trm
       /\ StartRequest(TitlesUrl(trm))
  /\ pc' = "direct"
  /\ UNCHANGED <<configVars, matchVars, extractVars, built>>
  /\ UNCHANGED <<response1, r_next, all_failed, searches, looked, direct, fallback, result>>

\* lines 64-65 and 162-164, for the synset of the direct path (or the exception raised)
DirectEnds(synset) ==
  /\ direct' = << synset >>
  /\ IF ~synset.ok \/ synset.val # ""
     THEN /\ result' = synset
          /\ pc' = "done"
          /\ UNCHANGED <<retryVars, log>>
     ELSE /\ StartRequest(SearchUrl(term))
          /\ pc' = "search1"
          /\ UNCHANGED result

\* lines 62-65 and 162-164
DirectDone ==
  /\ pc = "direct"
  /\ w_pc = "returned"
  /\ DirectEnds(ResponseSynset(response))
  /\ UNCHANGED <<configVars, matchVars, extractVars, built>>
  /\ UNCHANGED <<term, response1, r_next, all_failed, searches, looked, fallback>>

\* lines 164-169, and 170-175 when the search is not issued again
Search1Done ==
  /\ pc = "search1"
  /\ w_pc = "returned"
  /\ response1' = response
  /\ searches' = Append(searches, response)
  /\ IF SearchError(response) # ""
     THEN FallbackEnds(Exc(SearchError(response))) /\ UNCHANGED r_next
     ELSE IF FollowsSuggestion(response)
          THEN /\ StartRequest(SearchUrl(response.query.searchinfo.suggestion))
               /\ pc' = "search2"
               /\ UNCHANGED <<r_next, fallback, result>>
          ELSE ResultsLoop(response, 1)
  /\ UNCHANGED <<configVars, matchVars, extractVars, built>>
  /\ UNCHANGED <<term, all_failed, looked, direct>>

\* lines 169-175
Search2Done ==
  /\ pc = "search2"
  /\ w_pc = "returned"
  /\ response1' = response
  /\ searches' = Append(searches, response)
  /\ IF SearchError(response) # ""
     THEN FallbackEnds(Exc(SearchError(response))) /\ UNCHANGED r_next
     ELSE ResultsLoop(response, 1)
  /\ UNCHANGED <<configVars, matchVars, extractVars, built>>
  /\ UNCHANGED <<term, all_failed, looked, direct>>

\* lines 179-180, and 171-175 for the next result, for the synset of the result looked up
LookupEnds(synset) ==
  /\ looked' = Append(looked, [index |-> r_next, synset |-> synset])
  /\ IF ~synset.ok \/ synset.val # ""
     THEN FallbackEnds(synset) /\ UNCHANGED r_next
     ELSE ResultsLoop(response1, r_next + 1)

\* lines 176-180, and 171-175 for the next result
LookupDone ==
  /\ pc = "lookup"
  /\ w_pc = "returned"
  /\ LookupEnds(ResponseSynset(response))
  /\ UNCHANGED <<configVars, matchVars, extractVars, built>>
  /\ UNCHANGED <<term, all_failed, response1, searches, direct>>

\* the caller has the outcome; the next call starts from scratch
Return ==
  /\ pc = "done"
  /\ pc' = "idle"
  /\ term' = << >>
  /\ response1' = None
  /\ r_next' = 0
  /\ log' = << >>
  /\ all_failed' = TRUE
  /\ searches' = << >>
  /\ looked' = << >>
  /\ direct' = << >>
  /\ fallback' = Ret("")
  /\ result' = Ret("")
  /\ url' = [kind |-> "none", q |-> << >>]
  /\ w_pc' = "idle"
  /\ attempts' = 0
  /\ failures' = 0
  /\ slept' = 0
  /\ response' = None
  /\ UNCHANGED <<configVars, matchVars, extractVars, built>>

\* the tables and the instance list after WikiSearch(data_dir) in a fresh process
Constructed(data_dir) ==
  /\ categ_synsets = LoadCategSynsets(EmptyDict, Sheet_categ_synsets(data_dir), 1)
  /\ regexps = LoadRegexps(EmptyDict, Sheet_regexps(data_dir), 1)
  /\ pronouns = LoadPronouns(EmptyDict, Sheet_pronouns(data_dir), 1)
  /\ built = << [data_dir |-> data_dir, categ_synsets |-> categ_synsets,
                 regexps |-> regexps, pronouns |-> pronouns] >>

\* one resolver has been constructed and is idle
Init ==
  /\ \E data_dir \in DataDirs : Constructed(data_dir)
  /\ MatchIdle
  /\ ExtractIdle
  /\ RetryIdle
  /\ CallIdle

Next ==
  \/ Call
  \/ AttemptSucceeds
  \/ AttemptFails
  \/ DirectDone
  \/ Search1Done
  \/ Search2Done
  \/ LookupDone
  \/ Return

Spec == Init /\ [][Next]_vars

\* the process from the definition of the class on: resolvers are constructed and called
InitProcess ==
  /\ categ_synsets = EmptyDict
  /\ regexps = EmptyDict
  /\ pronouns = EmptyDict
  /\ MatchIdle
  /\ ExtractIdle
  /\ ResolveIdle

NextProcess == Construct \/ Next

SpecProcess == InitProcess /\ [][NextProcess]_vars

\* ------------------------------------------------------------ claims about _get_first_synset

Tokens(i) == Split(Lower(phrases[i]))

HasNounSense(tok) ==
  \/ tok \in DOMAIN categ_synsets
  \/ WnSynsets(tok) # << >>
  \/ WnSynsets(Lemmatize(tok)) # << >>

FirstSenseName(tok) ==
  IF tok \in DOMAIN categ_synsets THEN categ_synsets[tok]
  ELSE IF WnSynsets(tok) # << >> THEN WnSynsets(tok)[1]
  ELSE WnSynsets(Lemmatize(tok))[1]

Qualifies(tok) == Len(tok) > 3 /\ HasNounSense(tok)

QualifyingTokens(i) == { t \in 1..Len(Tokens(i)) : Qualifies(Tokens(i)[t]) }

QualifyingPhrases == { i \in 1..Len(phrases) : QualifyingTokens(i) # {} }

SetMin(S) == CHOOSE x \in S : \A y \in S : x <= y

SetMax(S) == CHOOSE x \in S : \A y \in S : x >= y

\* the last token longer than 3 characters with a noun sense, of the first phrase that has one
DecidingToken ==
  LET k == SetMin(QualifyingPhrases)
  IN Tokens(k)[SetMax(QualifyingTokens(k))]

\* C5: _get_first_synset returns the first sense name of the last token longer than 3
\* characters with a noun sense of the first phrase that has such a token, examines no
\* phrase after that one, never lets a token of 3 characters or fewer set the result, and
\* returns the empty string when no phrase has such a token.
C5_FirstPhraseLastToken ==
  /\ \A i \in 1..(m_next - 2) : i \notin QualifyingPhrases
  /\ m_pc = "loop" => (m_next - 1) \notin QualifyingPhrases
  /\ m_pc = "done" =>
       IF QualifyingPhrases = {}
       THEN m_synset = "" /\ m_next = Len(phrases) + 1
       ELSE /\ m_synset = FirstSenseName(DecidingToken)
            /\ m_next = SetMin(QualifyingPhrases) + 1

\* a later phrase would have matched too, and the deciding token is followed by a token of
\* 3 characters or fewer that has noun senses of its own
C5_Witness ==
  /\ m_pc = "done"
  /\ Cardinality(QualifyingPhrases) >= 2
  /\ m_next = 2
  /\ LET toks == Tokens(1)
     IN /\ SetMax(QualifyingTokens(1)) < Len(toks)
        /\ WnSynsets(toks[Len(toks)]) # << >>
        /\ Len(toks[Len(toks)]) <= 3
        /\ m_synset # WnSynsets(toks[Len(toks)])[1]
  /\ m_synset # ""
  /\ m_synset # PhraseSynset(categ_synsets, phrases[2])

\* C6: when the token that decides the result is a key of the override table, the result
\* is the synset name the table maps it to, whatever the taxonomy's default sense is.
C6_OverridePrecedence ==
  (m_pc = "done" /\ QualifyingPhrases # {} /\ DecidingToken \in DOMAIN categ_synsets)
    => m_synset = categ_synsets[DecidingToken]

\* the deciding token is in the override table and the taxonomy's default sense differs
C6_Witness ==
  /\ m_pc = "done"
  /\ QualifyingPhrases # {}
  /\ DecidingToken \in DOMAIN categ_synsets
  /\ WnSynsets(DecidingToken) # << >>
  /\ WnSynsets(DecidingToken)[1] # categ_synsets[DecidingToken]
  /\ m_synset = categ_synsets[DecidingToken]

\* ------------------------------------------------------------ claims about _get_response_terms

HasField(page, f) == f \in DOMAIN page

IsDisambiguationPage(page) ==
  /\ HasField(page, "categories")
  /\ page.categories # << >>
  /\ IsDisambiguation(page.categories[1].title)

HasExtract(page) == HasField(page, "extract") /\ page.extract.nonempty

\* the phrases of a page when every missing field contributes nothing
PhrasesMissingAsNothing(page) ==
  IF IsDisambiguationPage(page)
  THEN IF HasExtract(page) THEN GetExtractPhrases(regexps, page.extract, TRUE) ELSE << >>
  ELSE (IF HasField(page, "title") THEN << page.title >> ELSE << >>)
       \o (IF HasField(page, "terms")
           THEN DescriptionPhrases(regexps, page.terms) \o LabelAliasPhrases(page.terms)
           ELSE << >>)
       \o (IF HasField(page, "categories")
           THEN CategoryPhrases(regexps, page.categories)
           ELSE << >>)
       \o (IF HasExtract(page) THEN GetExtractPhrases(regexps, page.extract, FALSE) ELSE << >>)

SinglePage ==
  /\ x_response # None
  /\ "query" \in DOMAIN x_response
  /\ Len(x_response.query.pages) = 1

ThePage == x_response.query.pages[1]

\* C7: extraction never fails on a partially populated page: each missing field (categories
\* absent or empty, the terms block, the extract) contributes no phrases, no error is raised
\* and the fields present still contribute; a page with only a title yields [title], a
\* response with no usable field yields the empty sequence.
C7_MissingFieldsContributeNothing ==
  x_pc = "done" =>
    /\ x_terms.ok
    /\ SinglePage => x_terms.val = PostProcess(regexps, PhrasesMissingAsNothing(ThePage), 1)
    /\ (SinglePage /\ DOMAIN ThePage = {"title"}) => x_terms.val = << ThePage.title >>
    /\ ~SinglePage /\ (x_response = None \/ "query" \notin DOMAIN x_response)
         => x_terms.val = << >>

\* a page with every field, whose first category is not a disambiguation marker
FullNormalPage ==
  /\ SinglePage
  /\ DOMAIN ThePage = {"title", "terms", "categories", "extract"}
  /\ ThePage.categories # << >>
  /\ ~IsDisambiguation(ThePage.categories[1].title)

\* text after the first colon (the whole text when it has none)
AfterFirstColon(title) ==
  LET colons == { i \in 1..Len(title) : title[i] = ":" }
  IN IF colons = {}
     THEN title
     ELSE SubSeq(title, (CHOOSE i \in colons : \A j \in colons : i <= j) + 1, Len(title))

\* the categories in reverse site order, each without the text up to its first colon,
\* those matching the exclusion pattern left out
CategoriesFirstColonStripped(categories) ==
  SelectSeq([i \in 1..Len(categories) |-> AfterFirstColon(Reverse(categories)[i].title)],
            LAMBDA cattext : ~ReSearch(regexps["general_categs"], cattext))

\* C8: for a normal content page the phrases are the title, then the description terms not
\* matching the exclusion pattern, then the labels, then the aliases, then the categories in
\* reverse site order with the text before the first colon stripped and the excluded ones
\* left out, then the normal-mode extract phrases.
C8_PagePhraseOrder ==
  (x_pc \in {"post", "done"} /\ FullNormalPage) =>
    x_phrases = << ThePage.title >>
                  \o DescriptionPhrases(regexps, ThePage.terms)
                  \o LabelAliasPhrases(ThePage.terms)
                  \o CategoriesFirstColonStripped(ThePage.categories)
                  \o (IF ThePage.extract.nonempty
                      THEN GetExtractPhrases(regexps, ThePage.extract, FALSE)
                      ELSE << >>)

\* the same order with the category text taken as the code takes it: it holds
PagePhraseOrderLastColon ==
  (x_pc \in {"post", "done"} /\ FullNormalPage) =>
    x_phrases = << ThePage.title >>
                  \o DescriptionPhrases(regexps, ThePage.terms)
                  \o LabelAliasPhrases(ThePage.terms)
                  \o CategoryPhrases(regexps, ThePage.categories)
                  \o (IF ThePage.extract.nonempty
                      THEN GetExtractPhrases(regexps, ThePage.extract, FALSE)
                      ELSE << >>)

\* ------------------------------------------------------------ claims about get_wiki_synset

SearchRequests == { k \in 1..Len(log) : log[k].kind = "search" }

TitleRequests == { k \in 1..Len(log) : log[k].kind = "titles" }

\* C1: when every request of a call fails with URLError until its retries are exhausted,
\* the call returns the empty string and no exception reaches the caller.
C1_NoDataGivesEmptySynset ==
  (pc = "done" /\ all_failed) => result = Ret("")

\* C2: one call of _get_wiki_response makes at most 10 attempts, returns the decoded data at
\* the first attempt that succeeds without attempting again, sleeps 2 after each attempt
\* that fails, and after 10 failures returns None instead of raising.
C2_BoundedRetry ==
  /\ attempts <= 10
  /\ slept = 2 * failures
  /\ w_pc = "trying" => (attempts = failures /\ attempts < 10)
  /\ w_pc = "returned" =>
       \/ response # None /\ attempts = failures + 1
       \/ response = None /\ attempts = 10 /\ failures = 10 /\ slept = 20

\* a lookup that gave up after ten failures
C2_Witness ==
  /\ w_pc = "returned"
  /\ response = None
  /\ failures = 10
  /\ attempts = 10
  /\ slept = 20

\* a lookup that returned data at its fourth attempt
C2_ReturnsAtFirstSuccess ==
  /\ w_pc = "returned"
  /\ response # None
  /\ failures = 3
  /\ attempts = 4
  /\ slept = 6

\* C3: the direct title lookup for the term is the first request; a non-empty synset of the
\* direct path is returned with no search request issued; a search request is issued only
\* after the direct path gave the empty string, and the call then ends as the fallback ends.
C3_DirectFirstThenFallback ==
  /\ log # << >> => log[1] = TitlesUrl(term)
  /\ pc = "direct" => Len(log) = 1
  /\ (pc = "done" /\ direct # << >> /\ direct[1].ok /\ direct[1].val # "")
       => (result = direct[1] /\ Len(log) = 1)
  /\ Len(log) >= 2 => (direct = << Ret("") >> /\ log[2] = SearchUrl(term))
  /\ (pc = "done" /\ Len(log) >= 2) => result = fallback

\* a call that the fallback path ended with a synset
C3_Witness ==
  /\ pc = "done"
  /\ Len(log) >= 3
  /\ direct = << Ret("") >>
  /\ fallback.ok
  /\ fallback.val # ""
  /\ result = fallback

\* the results of the search the fallback path works on, none when it has no usable response
FinalResults ==
  IF searches = << >> \/ SearchError(searches[Len(searches)]) # ""
  THEN << >>
  ELSE searches[Len(searches)].query.search

CloseResults == { j \in 1..Len(FinalResults) : TitleCloseEnough(term, FinalResults[j].title) }

Matched(k) == looked[k].synset.ok /\ looked[k].synset.val # ""

\* the results are taken in order, only those with a close title are looked up, and the
\* lookups stop at the first that gives a synset
LookupsInOrder ==
  /\ \A k \in 1..Len(looked) : looked[k].index \in CloseResults
  /\ \A k \in 1..(Len(looked) - 1) : looked[k].index < looked[k + 1].index
  /\ \A k \in 1..Len(looked) : \A j \in CloseResults :
       j < looked[k].index => \E l \in 1..(k - 1) : looked[l].index = j
  /\ \A k \in 1..(Len(looked) - 1) : ~Matched(k)
  /\ Cardinality(TitleRequests) = 1 + Len(looked) + (IF pc = "lookup" THEN 1 ELSE 0)

\* C4: in the fallback path the results are processed in the order returned, a title lookup
\* is issued only for a result whose title is close enough to the term, the synset of the
\* first processed result that gives one is returned at once with no later lookup, and the
\* empty string is returned when no result gives a synset or the search has no results.
C4_FallbackResults ==
  (pc = "done" /\ Len(log) >= 2) =>
    /\ LookupsInOrder
    /\ IF looked # << >> /\ Matched(Len(looked))
       THEN result = looked[Len(looked)].synset
       ELSE /\ result = Ret("")
            /\ \A j \in CloseResults : \E k \in 1..Len(looked) : looked[k].index = j

\* the same without the last clause: it holds
FallbackLookupsInOrder ==
  Len(log) >= 2 =>
    /\ LookupsInOrder
    /\ (pc = "done" /\ looked # << >> /\ Matched(Len(looked)))
         => result = looked[Len(looked)].synset
    /\ (pc = "done" /\ result = Ret(""))
         => \A j \in CloseResults : \E k \in 1..Len(looked) : looked[k].index = j

HasSuggestion(r1) ==
  /\ SearchError(r1) = ""
  /\ "searchinfo" \in DOMAIN r1.query
  /\ "suggestion" \in DOMAIN r1.query.searchinfo

EmptyWithSuggestion(r1) == HasSuggestion(r1) /\ r1.query.search = << >>

\* C9: a call issues the search again at most once, and only when the first search gave
\* no results and a suggestion, with the suggested query; a suggestion of the second search
\* is not followed; when the first search has results or no suggestion the call makes
\* exactly one search request.
C9_OneSearchRetry ==
  /\ Cardinality(SearchRequests) <= 2
  /\ SearchRequests \subseteq {2, 3}
  /\ 3 \in SearchRequests =>
       /\ searches # << >>
       /\ EmptyWithSuggestion(searches[1])
       /\ log[3] = SearchUrl(searches[1].query.searchinfo.suggestion)
  /\ (pc = "done" /\ searches # << >> /\ ~EmptyWithSuggestion(searches[1]))
       => Cardinality(SearchRequests) = 1
  /\ (pc = "done" /\ Len(searches) = 2) => Cardinality(SearchRequests) = 2

\* the second search gave no results and a suggestion of its own, and the call ended
C9_Witness ==
  /\ pc = "done"
  /\ Len(searches) = 2
  /\ EmptyWithSuggestion(searches[1])
  /\ EmptyWithSuggestion(searches[2])
  /\ Cardinality(SearchRequests) = 2
  /\ result = Ret("")

\* ------------------------------------------------------------ claims about the tables

\* C10: the three tables are populated once at construction and never change afterwards:
\* every resolver constructed so far still reads the tables its construction left.
C10_TablesFixedAfterConstruction ==
  \A i \in 1..Len(built) :
    /\ built[i].categ_synsets = categ_synsets
    /\ built[i].regexps = regexps
    /\ built[i].pronouns = pronouns

\* no step of a call changes a table: it holds
CallsLeaveTables == [][Next => UNCHANGED configVars]_vars

====
